---- MODULE Spec2Model ----
(***************************************************************************)
(* react-audio-recorder: the useAudioRecorder hook                         *)
(* (src/src/hooks/useAudioRecorder.ts) as a state machine.                 *)
(*                                                                         *)
(* The hook's React state and refs are the variables.  The platform        *)
(* objects it drives (microphone streams, MediaRecorder, AudioContext and  *)
(* its processing node, the auto-stop timer) are modelled by what the      *)
(* hook can observe of them.  Every `await` on a platform promise is an    *)
(* interleaving point: the call is parked in `procs` and a later action    *)
(* runs its continuation.  An `await` of an already settled promise only   *)
(* yields to microtasks and is taken together with the code around it.     *)
(*                                                                         *)
(* A caller invokes start/stop/pause/resume/reset of the latest render, so *)
(* the `status` and `recording` such a call closes over are the current    *)
(* ones.  The options (`format`, `autoStopMs`) are whatever the component  *)
(* passed to that render: they are inputs of the call.  The auto-stop      *)
(* timer invokes the `stop` that `start` closed over: its `status` and     *)
(* `format` are those of the render in which start() was invoked; what it  *)
(* returns is discarded (`void stop()`).                                   *)
(*                                                                         *)
(* Spec follows up to MaxSessions start() calls without a clock;           *)
(* SpecClock follows ClockSessions of them with the clock and the duration *)
(* tick.                                                                   *)
(***************************************************************************)
EXTENDS Integers, Sequences, FiniteSets, TLC

(* ---- bounds of the model ---- *)
MaxSessions == 2      \* start() calls that go past the guards in one behaviour
ClockSessions == 1    \* the same, in the behaviours whose clock is followed
MaxCalls == 4         \* calls of the component (its unmount included) that take effect
MaxProcs == 2         \* async calls parked on a platform promise at once
MaxNow == 2           \* milliseconds a session's clock is followed for
MaxDetects == 2       \* direct calls of detectRecorderSupport that are followed
MaxFrameList == 2     \* frames in the list handed to an encoder
MaxSamples == 1       \* samples in one channel buffer of such a frame
SampleScale == 3      \* a sample is written as a count of 1/SampleScale
MaxChunkBytes == 1    \* bytes in a chunk the MP3 encoder returns from one call
MaxMrStarts == 2       \* startRecording() calls of one MultiRecorder
MaxMrCalls == 4        \* calls of one MultiRecorder in all
MaxDeliveries == 1     \* buffers one worklet node delivers
MaxChunks == 1        \* timeslice chunks one recorder emits before its stop
MaxFrames == 1        \* sample frames one processing node delivers
SamplesPerFrame == 1  \* samples per channel in one delivered frame

(* ---- program constants ---- *)
channelCount == 1     \* default of the channelCount option
WavHeaderBytes == 44  \* size of the RIFF/WAVE header encodeWav writes
RiffId == 1179011410  \* 0x46464952, written at offset 0
WaveId == 1163280727  \* 0x45564157, written at offset 8
FmtId == 544501094    \* 0x20746d66, written at offset 12
DataId == 1635017060  \* 0x61746164, written at offset 36
NegScale == 32768     \* 0x8000, the factor of a negative sample
PosScale == 32767     \* 0x7fff, the factor of a non-negative sample
DefaultSampleRate == 48000  \* MultiRecorder's sample rate when the option is absent

Formats == {"wav", "webm", "mp3"}
\* the `format` option of the render whose stop() is invoked: the one a native
\* session and the one a raw-tap session can have been started with
StopFormats == {"wav", "webm"}
ChunkSizes == {0, 1}  \* bytes in a chunk the recorder delivers; 0 is an empty chunk
Statuses == {"idle", "recording", "paused", "stopped", "unsupported"}
SessionIds == 1..MaxSessions
ProcIds == 1..MaxProcs

NoRecording == [id |-> 0, format |-> "none", duration |-> 0, size |-> 0, data |-> <<>>]
NoError == 0

VARIABLES
  \* options and runtime of the hook instance
  isBrowser,            \* window and navigator exist
  hasMediaDevices,      \* isBrowser && navigator.mediaDevices
  hasMediaRecorder,     \* typeof MediaRecorder !== "undefined"
  nativeFormats,        \* formats MediaRecorder.isTypeSupported affirms
  throwingFormats,      \* formats for which MediaRecorder.isTypeSupported throws
  mounted,              \* the component using the hook is mounted
  maxStarts,            \* start() calls the component makes at most
  calls,                \* calls the component has made that took effect
  \* React state
  status, recording, error, durationMs, bytes, stream,
  \* refs
  mediaRecorderRef, streamRef, chunksRef, pcmFramesRef, audioContextRef,
  sourceNodeRef, processorNodeRef, gainNodeRef, elapsedBeforePauseRef,
  activeStartRef,       \* -1 for null; else the age of the timestamp it holds,
                        \* performance.now() - activeStartRef.current
  autoStopTimeoutRef,
  \* platform objects, indexed by the stream they were created for
  tracks,               \* "none" | "live" | "ended"
  recorders,            \* MediaRecorder: state, chunks emitted, stop task queued
  contexts,             \* AudioContext: "none" | "running" | "closing" | "closed"
  nodes,                \* processing node: kind, handler, connections, frames delivered
  timer,                \* the window.setTimeout armed by start()
  started,              \* start() calls that went past the status guard
  \* callbacks
  onStopCalls,          \* descriptors created (each is passed to onStop once)
  onErrorCalls,
  \* calls parked on a platform promise, and the call that has just returned
  procs, done,
  \* observation: time the current session has spent in status recording
  recordedMs,
  \* the library's functions called directly
  detected,             \* what each call of detectRecorderSupport() returned
  pcm,                  \* the arguments of an encoder: frames, sampleRate, channelCount
  encoded,              \* the encoder call under way or returned, and its result
  \* a MultiRecorder instance of format wav (multi-recorder.ts)
  mr,                   \* its fields wavStream, wavAudioCtx, wavProcessor, wavPcmData
  mrTracks,             \* the streams getUserMedia gave it: "none" | "live" | "ended"
  mrContexts,           \* the AudioContexts it created: "none" | "running" | "closing"
  mrProcessors,         \* the worklet nodes it created
  mrCalls,              \* its startRecording() calls parked on a promise
  mrDone,               \* its call that has just returned or thrown
  mrFed                 \* observation: the recording in progress and what it was fed

runtimeVars == <<isBrowser, hasMediaDevices, hasMediaRecorder, nativeFormats, throwingFormats>>
mrVars == <<mr, mrTracks, mrContexts, mrProcessors, mrCalls, mrDone, mrFed>>
libVars == <<detected, pcm, encoded, mrVars>>
envVars == <<runtimeVars, libVars, mounted, maxStarts>>
stateVars == <<status, recording, error, durationMs, bytes, stream>>
refVars == <<mediaRecorderRef, streamRef, chunksRef, pcmFramesRef, audioContextRef,
             sourceNodeRef, processorNodeRef, gainNodeRef, elapsedBeforePauseRef,
             activeStartRef, autoStopTimeoutRef>>
platformVars == <<tracks, recorders, contexts, nodes, timer, started>>
hookVars == <<mounted, maxStarts, stateVars, refVars, platformVars, onStopCalls,
              onErrorCalls, procs, done, recordedMs, calls>>
vars == <<envVars, stateVars, refVars, platformVars, onStopCalls, onErrorCalls,
          procs, done, recordedMs, calls>>

\* The arguments of encodeWav and encodeMp3.  A frame is the sequence of its channel
\* buffers; a sample s stands for the float s / SampleScale.
NoPcm == [frames |-> <<>>, sampleRate |-> 0, channelCount |-> 0]
\* An encoder call.  fn: the function; state: "loading" while it awaits the import
\* of lamejs, "unavailable" when that import was rejected, else "returned" or
\* "threw"; parts, bytes: the parts of the Blob returned, and its payload; loads:
\* the imports of lamejs it began; calls: its calls of the Mp3Encoder, in order.
NoEncoded == [fn |-> "none", state |-> "none", parts |-> <<>>, bytes |-> <<>>,
              loads |-> 0, calls |-> <<>>]

(* The hook instance and the platform objects as one value, so that the   *)
(* statements of a handler compose as function application.               *)
World ==
  [status |-> status, recording |-> recording, error |-> error,
   durationMs |-> durationMs, bytes |-> bytes, stream |-> stream,
   mediaRecorderRef |-> mediaRecorderRef, streamRef |-> streamRef,
   chunksRef |-> chunksRef, pcmFramesRef |-> pcmFramesRef,
   audioContextRef |-> audioContextRef, sourceNodeRef |-> sourceNodeRef,
   processorNodeRef |-> processorNodeRef, gainNodeRef |-> gainNodeRef,
   elapsedBeforePauseRef |-> elapsedBeforePauseRef,
   activeStartRef |-> activeStartRef, autoStopTimeoutRef |-> autoStopTimeoutRef,
   tracks |-> tracks, recorders |-> recorders, contexts |-> contexts,
   nodes |-> nodes, timer |-> timer, started |-> started,
   onStopCalls |-> onStopCalls, onErrorCalls |-> onErrorCalls]

Commit(w) ==
  /\ status' = w.status /\ recording' = w.recording /\ error' = w.error
  /\ durationMs' = w.durationMs /\ bytes' = w.bytes /\ stream' = w.stream
  /\ mediaRecorderRef' = w.mediaRecorderRef /\ streamRef' = w.streamRef
  /\ chunksRef' = w.chunksRef /\ pcmFramesRef' = w.pcmFramesRef
  /\ audioContextRef' = w.audioContextRef /\ sourceNodeRef' = w.sourceNodeRef
  /\ processorNodeRef' = w.processorNodeRef /\ gainNodeRef' = w.gainNodeRef
  /\ elapsedBeforePauseRef' = w.elapsedBeforePauseRef
  /\ activeStartRef' = w.activeStartRef
  /\ autoStopTimeoutRef' = w.autoStopTimeoutRef
  /\ tracks' = w.tracks /\ recorders' = w.recorders /\ contexts' = w.contexts
  /\ nodes' = w.nodes /\ timer' = w.timer /\ started' = w.started
  /\ onStopCalls' = w.onStopCalls /\ onErrorCalls' = w.onErrorCalls

NoTimer == [armed |-> FALSE, status |-> "idle", format |-> "wav"]
NoNode == [kind |-> "none", handler |-> FALSE, src |-> FALSE, out |-> FALSE, delivered |-> 0]
NoRecorder == [state |-> "none", emitted |-> 0, stopQueued |-> FALSE]
\* A call in flight.  op, pc: the function and the await it is parked on; sid: the
\* stream a start() asked for, or the recorder a stop() stops; ctx, own: the
\* context whose close() it waits for, and whether it started the closing; from, format, autoStop: the `status`
\* and options its closure holds; by: who invoked it; result: what it will return.
\* What the call has done so far: errCalls, its onError calls; errLog, the values
\* it passed to setError.  What it was invoked after: recAt, the time the session
\* had spent recording; prevRet, the descriptor a stop() had just returned.
\* path: the branch of lines 327-361 a start() took, "native" (332-356), "rawtap"
\* (358), "unsupported" (360), or "probe" when isTypeSupported threw on line 329.
NoProc == [op |-> "none", pc |-> "none", sid |-> 0, from |-> "idle", by |-> "user",
           format |-> "wav", autoStop |-> FALSE, result |-> NoRecording,
           errCalls |-> 0, errLog |-> <<>>, ctx |-> 0, own |-> FALSE, recAt |-> 0,
           prevRet |-> NoRecording, path |-> "none"]
\* The call, or the event handler, that has just returned
NoDone == [op |-> "none", sid |-> 0, from |-> "idle", by |-> "user", ret |-> NoRecording,
           ok |-> TRUE, errCalls |-> 0, errLog |-> <<>>, recAt |-> 0,
           prevRet |-> NoRecording, format |-> "wav", path |-> "none"]

(* ---- helpers of the hook (useAudioRecorder.ts) ---- *)

\* resetDuration, lines 115-119
resetDuration(w) ==
  [w EXCEPT !.elapsedBeforePauseRef = 0, !.activeStartRef = -1, !.durationMs = 0]

\* computeDuration, lines 121-126: activeStartRef holds performance.now() -
\* activeStartRef.current, or -1 for null
computeDuration(w) ==
  IF w.activeStartRef # -1
    THEN w.elapsedBeforePauseRef + w.activeStartRef
    ELSE w.elapsedBeforePauseRef

\* clearAutoStop, lines 128-133: clearTimeout of a timer that already fired is a no-op
clearAutoStop(w) ==
  IF w.autoStopTimeoutRef # 0
    THEN [w EXCEPT !.timer = NoTimer, !.autoStopTimeoutRef = 0]
    ELSE w

\* handleError, lines 135-142.  An Error is identified by where it was raised:
\* StartError(s) in the s-th start(), RecorderError(r) by recorder r.
StartError(s) == s
RecorderError(r) == 0 - r

\* handleError without line 138: the error is stored but onError is not called
handleErrorSilent(w, err) ==
  [w EXCEPT !.error = err, !.status = "unsupported"]

handleError(w, err) ==
  [w EXCEPT !.error = err, !.onErrorCalls = @ + 1, !.status = "unsupported"]

\* cleanupAudioGraph, lines 145-157 up to the call of close(): the handler of a
\* worklet port is removed, the node's output, the source's output and the gain's
\* output are disconnected, and close() is called on a context that is running.
cleanupAudioGraphSync(w) ==
  LET p == w.processorNodeRef
      w1 == IF p # 0
              THEN [w EXCEPT !.nodes[p].handler =
                               IF w.nodes[p].kind = "worklet" THEN FALSE ELSE @,
                             !.nodes[p].out = FALSE,
                             !.processorNodeRef = 0]
              ELSE w
      s == w1.sourceNodeRef
      w2 == IF s # 0 THEN [w1 EXCEPT !.nodes[s].src = FALSE, !.sourceNodeRef = 0] ELSE w1
      w3 == [w2 EXCEPT !.gainNodeRef = 0]
      c == w3.audioContextRef
  IN IF c # 0 /\ w3.contexts[c] = "running"
       THEN [w3 EXCEPT !.contexts[c] = "closing"]
       ELSE w3

\* cleanupStream, lines 163-169
cleanupStream(w) ==
  LET w1 == IF w.streamRef # 0
              THEN [w EXCEPT !.tracks[w.streamRef] = "ended", !.streamRef = 0]
              ELSE w
  IN [w1 EXCEPT !.stream = 0]

\* cleanupRecorder, lines 171-179 up to the await inside cleanupAudioGraph.
\* MediaRecorder.stop() makes the recorder inactive at once and queues the task
\* that fires its last dataavailable and its stop event.
cleanupRecorderSync(w) ==
  LET r == w.mediaRecorderRef
      w1 == IF r # 0 /\ w.recorders[r].state # "inactive"
              THEN [w EXCEPT !.recorders[r].state = "inactive",
                             !.recorders[r].stopQueued = TRUE]
              ELSE w
      w2 == [w1 EXCEPT !.mediaRecorderRef = 0, !.chunksRef = <<>>, !.bytes = 0]
  IN cleanupAudioGraphSync(w2)

\* What `await audioContextRef.current.close().catch(...)` (line 157) waits for:
\* "none" no context, so no call; "settled" the context is closed and close()
\* rejects at once; "own" this call starts the closing; "other" a closing that an
\* earlier call started.
CloseKind(w) ==
  LET c == w.audioContextRef
  IN IF c = 0 THEN "none"
     ELSE IF w.contexts[c] = "closed" THEN "settled"
     ELSE IF w.contexts[c] = "running" THEN "own"
     ELSE "other"

\* cleanupAudioGraph lines 158-160 and cleanupRecorder lines 180-181: what runs
\* after the await.  hadContext: the `if (audioContextRef.current)` branch was taken.
cleanupRecorderRest(w, hadContext) ==
  LET w1 == IF hadContext THEN [w EXCEPT !.audioContextRef = 0] ELSE w
      w2 == [w1 EXCEPT !.pcmFramesRef = <<>>]
  IN clearAutoStop(cleanupStream(w2))

\* cleanupRecorder as a whole: either it runs to its end (parked = FALSE), or it
\* is parked on the close() promise of context sid.
cleanupRecorder(w) ==
  LET kind == CloseKind(w)
      ws == cleanupRecorderSync(w)
  IN IF kind \in {"own", "other"}
       THEN [w |-> ws, parked |-> TRUE, sid |-> w.audioContextRef, own |-> kind = "own"]
       ELSE [w |-> cleanupRecorderRest(ws, kind = "settled"), parked |-> FALSE,
             sid |-> 0, own |-> FALSE]

RECURSIVE SumSizes(_)
SumSizes(chunks) ==
  IF chunks = <<>> THEN 0 ELSE Head(chunks).size + SumSizes(Tail(chunks))

\* new Blob(chunksRef.current, ...), lines 267 and 276
BlobOf(chunks) == [size |-> SumSizes(chunks), data |-> chunks]

\* encodeWav(pcmFramesRef.current, sampleRate, channelCount), line 288, by the size
\* and the frames of its result: 44 + samples * 2 * channelCount bytes
encodeWavBlob(frames) ==
  [size |-> WavHeaderBytes + Len(frames) * SamplesPerFrame * 2 * channelCount,
   data |-> frames]

\* finalizeRecording, lines 184-202; fmt is the `format` of the render whose stop
\* runs.  A Blob object is never null, so the early return is not taken.
finalizeRecording(w, blob, fmt) ==
  LET recordingResult == [id |-> w.onStopCalls + 1, format |-> fmt,
                          duration |-> computeDuration(w), size |-> blob.size,
                          data |-> blob.data]
  IN [w EXCEPT !.recording = recordingResult, !.onStopCalls = @ + 1]

(* ---- parked calls ---- *)

\* procs lists the parked calls in the order they were parked
HasFree == Len(procs) < MaxProcs
Parked == 1..Len(procs)
Unpark(p) == [i \in 1..(Len(procs) - 1) |-> IF i < p THEN procs[i] ELSE procs[i + 1]]

DoneOf(pr, okFlag) ==
  [op |-> pr.op, sid |-> pr.sid, from |-> pr.from,
   by |-> pr.by, ret |-> pr.result, ok |-> okFlag, errCalls |-> pr.errCalls,
   errLog |-> pr.errLog, recAt |-> pr.recAt, prevRet |-> pr.prevRet,
   format |-> pr.format, path |-> pr.path]

\* What follows cleanupRecorder in each caller: start's catch, line 372; reset,
\* lines 430-433; stop returns its result; the unmount effect has nothing left.
Epilogue(op, w) ==
  IF op = "start" THEN [w EXCEPT !.status = "idle"]
  ELSE IF op = "reset"
    THEN [resetDuration(w) EXCEPT !.recording = NoRecording, !.error = NoError,
                                  !.status = "idle"]
  ELSE w

\* `await cleanupRecorder()` and the rest of the caller.  slot = 0: the call is not
\* parked yet and takes a free slot when it has to wait.
CleanupAndReturn(w, slot, pr) ==
  LET c == cleanupRecorder(w)
  IN IF c.parked
       THEN /\ slot = 0 => HasFree
            /\ Commit(c.w)
            /\ LET parked == [pr EXCEPT !.pc = "close", !.ctx = c.sid, !.own = c.own]
               IN procs' = IF slot = 0 THEN Append(procs, parked)
                           ELSE [procs EXCEPT ![slot] = parked]
            /\ done' = NoDone
       ELSE /\ Commit(Epilogue(pr.op, c.w))
            /\ procs' = IF slot = 0 THEN procs ELSE Unpark(slot)
            /\ done' = DoneOf(pr, pr.op # "start")

\* The close() promise a parked cleanupRecorder waits for settles.  The call that
\* started the closing sees it complete; a call that found the context closing is
\* resumed after that.
CloseResolved(p) ==
  /\ p \in Parked
  /\ procs[p].pc = "close"
  /\ procs[p].own \/ contexts[procs[p].ctx] = "closed"
  /\ LET w1 == [World EXCEPT !.contexts[procs[p].ctx] = "closed"]
         w2 == cleanupRecorderRest(w1, TRUE)
     IN Commit(Epilogue(procs[p].op, w2))
  /\ procs' = Unpark(p)
  /\ done' = DoneOf(procs[p], procs[p].op # "start")
  /\ UNCHANGED <<envVars, recordedMs, calls>>

(* ---- start(), lines 306-373 ---- *)

\* lines 363-368
armAutoStop(w, pr) ==
  IF pr.autoStop
    THEN [clearAutoStop(w) EXCEPT
            !.timer = [armed |-> TRUE, status |-> pr.from, format |-> pr.format],
            !.autoStopTimeoutRef = 1]
    ELSE w

\* the catch block, lines 369-373
StartCatch(w, slot, pr, err) ==
  LET w1 == handleError(w, err)
  IN CleanupAndReturn(w1, slot,
                      [pr EXCEPT !.errCalls = @ + (w1.onErrorCalls - w.onErrorCalls),
                                 !.errLog = Append(@, w1.error)])

StartReturn(w, slot, pr) ==
  /\ Commit(armAutoStop(w, pr))
  /\ procs' = Unpark(slot)
  /\ done' = DoneOf(pr, TRUE)

\* lines 307-317: the guards, then getUserMedia is requested.  format and autoStop
\* are the options of the render whose start() is invoked.
CallStart(format, autoStop) ==
  /\ mounted
  /\ started < maxStarts
  /\ LET pr == [NoProc EXCEPT !.op = "start", !.from = status, !.format = format,
                              !.autoStop = autoStop, !.sid = started + 1]
     IN \/ /\ ~hasMediaDevices
           /\ LET w1 == handleError(World, StartError(started + 1))
              IN /\ Commit([w1 EXCEPT !.started = @ + 1])
                 /\ done' = DoneOf([pr EXCEPT !.errCalls = w1.onErrorCalls - onErrorCalls,
                                              !.errLog = <<w1.error>>], FALSE)
           /\ procs' = procs
        \/ /\ hasMediaDevices
           /\ status = "recording"
           /\ Commit(World)
           /\ UNCHANGED <<procs, done>>
        \/ /\ hasMediaDevices
           /\ status # "recording"
           /\ HasFree
           /\ Commit([World EXCEPT !.started = @ + 1])
           /\ procs' = Append(procs, [pr EXCEPT !.pc = "gum"])
           /\ done' = NoDone
  /\ calls' = IF hasMediaDevices /\ status = "recording" THEN calls ELSE calls + 1
  /\ calls' <= MaxCalls
  /\ UNCHANGED <<envVars, recordedMs>>

\* getUserMedia rejects: permission denied or no device
GumReject(p) ==
  /\ p \in Parked
  /\ procs[p].pc = "gum"
  /\ StartCatch(World, p, procs[p], StartError(procs[p].sid))
  /\ UNCHANGED <<envVars, recordedMs, calls>>

\* lines 318-325, with the stream getUserMedia resolved to
startSession(w, s) ==
  LET w1 == [w EXCEPT !.tracks[s] = "live", !.streamRef = s, !.stream = s,
                      !.chunksRef = <<>>, !.pcmFramesRef = <<>>]
      w2 == [resetDuration(w1) EXCEPT !.activeStartRef = 0]
  IN [w2 EXCEPT !.status = "recording", !.error = NoError]

\* lines 332-356: the native recorder is created and started
startNative(w, s) ==
  [w EXCEPT !.recorders[s] = [state |-> "recording", emitted |-> 0, stopQueued |-> FALSE],
            !.mediaRecorderRef = s]

\* buildPCMGraph, lines 206-213: context, source node and gain node
buildPCMGraphHead(w, s) ==
  [w EXCEPT !.contexts[s] = "running", !.audioContextRef = s, !.sourceNodeRef = s,
            !.gainNodeRef = s]

\* buildPCMGraph, lines 217-232 (worklet node) or 234-248 (script processor): the
\* node of the context this call created is stored, given its handler and connected
buildPCMGraphNode(w, s, kind) ==
  [w EXCEPT !.nodes[s] = [kind |-> kind, handler |-> TRUE, src |-> TRUE, out |-> TRUE,
                          delivered |-> 0],
            !.processorNodeRef = s]

\* MediaRecorder.isTypeSupported(formatToMime(format)) in this runtime
isTypeSupported(format) ==
  IF format \in throwingFormats THEN "throws"
  ELSE IF format \in nativeFormats THEN "yes" ELSE "no"

\* detectRecorderSupport without the try/catch of lines 21-25: a probe that throws
\* ends the call
detectWithoutCatch ==
  IF ~isBrowser \/ ~hasMediaRecorder
    THEN [threw |-> FALSE, caps |-> [f \in Formats |-> FALSE]]
    ELSE [threw |-> \E f \in Formats : isTypeSupported(f) = "throws",
          caps |-> [f \in Formats |-> isTypeSupported(f) = "yes"]]

\* detectRecorderSupport (utils/mime), lines 15-29: all false without a browser or
\* without MediaRecorder; else one probe per format, and a probe that throws is
\* caught and counts as false.  threw: an exception left the function.
detectRecorderSupport ==
  IF ~isBrowser \/ ~hasMediaRecorder
    THEN [threw |-> FALSE, caps |-> [f \in Formats |-> FALSE]]
    ELSE [threw |-> FALSE, caps |-> [f \in Formats |-> isTypeSupported(f) = "yes"]]

\* line 88: the capability map of the first render, returned as `supports`
supports == detectRecorderSupport.caps

\* lines 328-329: `typeof MediaRecorder !== "undefined" && mimeType &&
\* MediaRecorder.isTypeSupported(mimeType)`; every format has a mime type
canUseMediaRecorder(format) ==
  IF ~hasMediaRecorder THEN "no" ELSE isTypeSupported(format)

\* getUserMedia resolves: lines 318-361.  The runtime decides whether creating or
\* starting the recorder, or wiring the graph, throws, and whether the context has
\* an audioWorklet.
GumResolve(p) ==
  /\ p \in Parked
  /\ procs[p].pc = "gum"
  /\ LET s == procs[p].sid
         w == startSession(World, s)
         pr0 == [procs[p] EXCEPT !.errLog = Append(@, w.error)]
         can == canUseMediaRecorder(pr0.format)
         pr == [pr0 EXCEPT !.path = IF can = "throws" THEN "probe"
                                    ELSE IF can = "yes" THEN "native"
                                    ELSE IF pr0.format = "wav" THEN "rawtap"
                                    ELSE "unsupported"]
     IN \/ /\ can = "throws"
           /\ StartCatch(w, p, pr, StartError(s))
        \/ /\ can = "yes"
           /\ StartReturn(startNative(w, s), p, pr)
        \/ /\ can = "yes"
           /\ StartCatch(w, p, pr, StartError(s))
        \/ /\ can = "no"
           /\ pr.format = "wav"
           /\ \/ StartCatch([w EXCEPT !.contexts[s] = "running", !.audioContextRef = s],
                            p, pr, StartError(s))
              \/ StartReturn(buildPCMGraphNode(buildPCMGraphHead(w, s), s, "legacy"), p, pr)
              \/ /\ Commit(buildPCMGraphHead(w, s))
                 /\ procs' = [procs EXCEPT ![p] = [pr EXCEPT !.pc = "worklet"]]
                 /\ done' = NoDone
        \/ /\ can = "no"
           /\ pr.format # "wav"
           /\ StartCatch(w, p, pr, StartError(s))
  /\ recordedMs' = 0
  /\ UNCHANGED <<envVars, calls>>

\* audioWorklet.addModule resolves: lines 216-232, 251, 363-368
WorkletLoaded(p) ==
  /\ p \in Parked
  /\ procs[p].pc = "worklet"
  /\ StartReturn(buildPCMGraphNode(World, procs[p].sid, "worklet"), p, procs[p])
  /\ UNCHANGED <<envVars, recordedMs, calls>>

\* audioWorklet.addModule rejects: ensurePCMWorkletModule (line 62) and
\* buildPCMGraph rethrow into start's catch
WorkletFailed(p) ==
  /\ p \in Parked
  /\ procs[p].pc = "worklet"
  /\ StartCatch(World, p, procs[p], StartError(procs[p].sid))
  /\ UNCHANGED <<envVars, recordedMs, calls>>

(* ---- stop(), lines 256-296 ---- *)

\* The body of stop() up to its first await.  from and fmt are the `status` and
\* `format` its closure holds, held the `recording` it holds.
\*   kind "return":   line 258, nothing done
\*   kind "waitStop": lines 273-280, parked on the recorder's stop event
\*   kind "cleanup":  about to `await cleanupRecorder()` with the result to return
\* stop() without its guard, lines 257-259
stopBodyUnguarded(w, from, held, fmt) ==
  LET w1 == [w EXCEPT !.status = "stopped", !.activeStartRef = -1]
      r == w1.mediaRecorderRef
  IN IF r # 0
       THEN IF w1.recorders[r].state = "inactive"
              THEN LET w2 == finalizeRecording(w1, BlobOf(w1.chunksRef), fmt)
                   IN [kind |-> "cleanup", w |-> w2, result |-> w2.recording, sid |-> r]
              ELSE [kind |-> "waitStop",
                    w |-> [w1 EXCEPT !.recorders[r].state = "inactive",
                                     !.recorders[r].stopQueued = TRUE],
                    result |-> NoRecording, sid |-> r]
     ELSE IF Len(w1.pcmFramesRef) > 0
       THEN LET w2 == finalizeRecording(w1, encodeWavBlob(w1.pcmFramesRef), fmt)
            IN [kind |-> "cleanup", w |-> w2, result |-> w2.recording, sid |-> 0]
     ELSE [kind |-> "cleanup", w |-> w1, result |-> NoRecording, sid |-> 0]

stopBody(w, from, held, fmt) ==
  IF from \in {"idle", "unsupported"}
    THEN [kind |-> "return", w |-> w, result |-> held, sid |-> 0]
  ELSE
    LET w1 == [w EXCEPT !.status = "stopped", !.activeStartRef = -1]
        r == w1.mediaRecorderRef
    IN IF r # 0
         THEN IF w1.recorders[r].state = "inactive"
                THEN LET w2 == finalizeRecording(w1, BlobOf(w1.chunksRef), fmt)
                     IN [kind |-> "cleanup", w |-> w2, result |-> w2.recording, sid |-> r]
                ELSE [kind |-> "waitStop",
                      w |-> [w1 EXCEPT !.recorders[r].state = "inactive",
                                       !.recorders[r].stopQueued = TRUE],
                      result |-> NoRecording, sid |-> r]
       ELSE IF Len(w1.pcmFramesRef) > 0
         THEN LET w2 == finalizeRecording(w1, encodeWavBlob(w1.pcmFramesRef), fmt)
              IN [kind |-> "cleanup", w |-> w2, result |-> w2.recording, sid |-> 0]
       ELSE [kind |-> "cleanup", w |-> w1, result |-> NoRecording, sid |-> 0]

RunStop(w, pr, held) ==
  LET b == stopBody(w, pr.from, held, pr.format)
      pr1 == [pr EXCEPT !.result = b.result, !.sid = b.sid]
  IN \/ /\ b.kind = "return"
        /\ Commit(b.w)
        /\ procs' = procs
        /\ done' = DoneOf(pr1, TRUE)
     \/ /\ b.kind = "waitStop"
        /\ HasFree
        /\ Commit(b.w)
        /\ procs' = Append(procs, [pr1 EXCEPT !.pc = "waitStop"])
        /\ done' = NoDone
     \/ /\ b.kind = "cleanup"
        /\ CleanupAndReturn(b.w, 0, pr1)

\* the caller invokes stop() of the latest render, whose `format` option is format
CallStop(format) ==
  /\ mounted
  /\ RunStop(World, [NoProc EXCEPT !.op = "stop", !.from = status, !.format = format,
                                   !.recAt = recordedMs,
                                   !.prevRet =
                                     IF done.op = "stop" /\ done.from \in {"recording", "paused"}
                                       THEN done.ret ELSE NoRecording],
             recording)
  /\ calls' = IF status \in {"idle", "unsupported"} THEN calls ELSE calls + 1
  /\ calls' <= MaxCalls
  /\ UNCHANGED <<envVars, recordedMs>>

\* the auto-stop timer fires, lines 365-367: `void stop()` with the stop that the
\* start() which armed it closed over; the value it returns is dropped
TimerFire ==
  /\ timer.armed
  /\ RunStop([World EXCEPT !.timer = NoTimer],
             [NoProc EXCEPT !.op = "stop", !.by = "timer", !.from = timer.status,
                            !.format = timer.format, !.recAt = recordedMs],
             NoRecording)
  /\ UNCHANGED <<envVars, recordedMs, calls>>

(* ---- events of the native recorder ---- *)

\* recorder.ondataavailable, lines 338-349: the handler of recorder r appends to
\* whatever chunksRef holds when the event arrives.  A chunk is [rec, seq]: the
\* seq-th non-empty chunk recorder rec emitted; index is the chunkIndex onChunk is
\* called with for it, chunksRef.current.length - 1 after the push.
ondataavailable(w, r, size) ==
  IF size > 0
    THEN [w EXCEPT !.chunksRef = Append(@, [rec |-> r, seq |-> w.recorders[r].emitted + 1,
                                            size |-> size, index |-> Len(w.chunksRef)]),
                   !.bytes = @ + size,
                   !.recorders[r].emitted = @ + 1]
    ELSE w

\* a timeslice chunk of a recorder that is recording
ChunkEvent(r) ==
  /\ recorders[r].state = "recording"
  /\ recorders[r].emitted < MaxChunks
  /\ \E size \in ChunkSizes :
       /\ Commit(ondataavailable(World, r, size))
       /\ done' = IF size > 0 THEN NoDone ELSE done
  /\ UNCHANGED <<envVars, procs, recordedMs, calls>>

\* The task MediaRecorder.stop() queued: the last dataavailable, then the stop
\* event.  handleStop (lines 274-277) resolves the parked stop() with a Blob of the
\* chunks chunksRef holds now; lines 282-284 follow in the same turn.
RecorderStopEvent(r) ==
  /\ recorders[r].stopQueued
  /\ \E size \in ChunkSizes :
       LET w == [ondataavailable(World, r, size) EXCEPT !.recorders[r].stopQueued = FALSE]
           waiting == {p \in Parked : procs[p].pc = "waitStop" /\ procs[p].sid = r}
       IN IF waiting = {}
            THEN Commit(w) /\ procs' = procs /\ done' = NoDone
            ELSE LET p == CHOOSE q \in waiting : TRUE
                     w2 == finalizeRecording(w, BlobOf(w.chunksRef), procs[p].format)
                 IN CleanupAndReturn(w2, p, [procs[p] EXCEPT !.result = w2.recording])
  /\ UNCHANGED <<envVars, recordedMs, calls>>

\* recorder.onerror, lines 351-354.  The runtime makes a recorder that cannot go
\* on inactive and queues its last dataavailable and stop event.
RecorderErrorEvent(r) ==
  /\ recorders[r].state \in {"recording", "paused"}
  /\ Commit(handleError([World EXCEPT !.recorders[r].state = "inactive",
                                      !.recorders[r].stopQueued = TRUE],
                        RecorderError(r)))
  /\ done' = [NoDone EXCEPT !.op = "onerror", !.sid = r]
  /\ UNCHANGED <<envVars, procs, recordedMs, calls>>

(* ---- events of the processing node ---- *)

\* port.onmessage (lines 222-229) or onaudioprocess (lines 238-245) of the node
\* of context c: the frame is appended to whatever pcmFramesRef holds now
FrameEvent(c) ==
  /\ contexts[c] = "running"
  /\ nodes[c].handler /\ nodes[c].src
  /\ nodes[c].delivered < MaxFrames
  /\ Commit([World EXCEPT !.pcmFramesRef =
                             Append(@, [ctx |-> c, seq |-> nodes[c].delivered + 1]),
                         !.nodes[c].delivered = @ + 1])
  /\ done' = NoDone
  /\ UNCHANGED <<envVars, procs, recordedMs, calls>>

(* ---- pause(), resume(), reset(), unmount ---- *)

\* pause without lines 397 and 404: the elapsed time is not captured
pauseForgetsElapsed(w) ==
  LET r == w.mediaRecorderRef
      p == w.processorNodeRef
      frozen == [w EXCEPT !.activeStartRef = -1, !.status = "paused"]
  IN IF w.status # "recording" THEN w
     ELSE IF r # 0 /\ w.recorders[r].state = "recording"
       THEN [frozen EXCEPT !.recorders[r].state = "paused"]
     ELSE IF p # 0 THEN [frozen EXCEPT !.nodes[p].out = FALSE]
     ELSE w

\* pause, lines 391-408
pause(w) ==
  LET r == w.mediaRecorderRef
      p == w.processorNodeRef
      frozen == [w EXCEPT !.elapsedBeforePauseRef = computeDuration(w),
                          !.activeStartRef = -1, !.status = "paused"]
  IN IF w.status # "recording" THEN w
     ELSE IF r # 0 /\ w.recorders[r].state = "recording"
       THEN [frozen EXCEPT !.recorders[r].state = "paused"]
     ELSE IF p # 0 THEN [frozen EXCEPT !.nodes[p].out = FALSE]
     ELSE w

\* resume, lines 410-426
resume(w) ==
  LET r == w.mediaRecorderRef
      p == w.processorNodeRef
      running == [w EXCEPT !.activeStartRef = 0, !.status = "recording"]
  IN IF w.status # "paused" THEN w
     ELSE IF r # 0 /\ w.recorders[r].state = "paused"
       THEN [running EXCEPT !.recorders[r].state = "recording"]
     ELSE IF p # 0 /\ w.sourceNodeRef # 0 /\ w.gainNodeRef # 0
       THEN [running EXCEPT !.nodes[p].src = TRUE, !.nodes[p].out = TRUE]
     ELSE w

CallPause ==
  /\ mounted
  /\ Commit(pause(World))
  /\ done' = IF pause(World) = World THEN done ELSE NoDone
  /\ calls' = IF pause(World) = World THEN calls ELSE calls + 1
  /\ calls' <= MaxCalls
  /\ UNCHANGED <<envVars, procs, recordedMs>>

CallResume ==
  /\ mounted
  /\ Commit(resume(World))
  /\ done' = IF resume(World) = World THEN done ELSE NoDone
  /\ calls' = IF resume(World) = World THEN calls ELSE calls + 1
  /\ calls' <= MaxCalls
  /\ UNCHANGED <<envVars, procs, recordedMs>>

\* reset, lines 428-434
CallReset ==
  /\ mounted
  /\ CleanupAndReturn(World, 0, [NoProc EXCEPT !.op = "reset"])
  /\ calls < MaxCalls
  /\ calls' = calls + 1
  /\ UNCHANGED <<envVars, recordedMs>>

\* the unmount effect, lines 450-454: `void cleanupRecorder()`
Unmount ==
  /\ mounted
  /\ mounted' = FALSE
  /\ CleanupAndReturn(World, 0, [NoProc EXCEPT !.op = "unmount"])
  /\ calls < MaxCalls
  /\ calls' = calls + 1
  /\ UNCHANGED <<runtimeVars, libVars, maxStarts, recordedMs>>

(* ---- time and the duration tick ---- *)

\* One millisecond passes: the timestamp activeStartRef holds ages, and the
\* session has spent one more millisecond in its status.
Tick ==
  /\ \/ activeStartRef # -1 /\ computeDuration(World) < MaxNow
     \/ status = "recording" /\ recordedMs < MaxNow
  /\ activeStartRef' = IF activeStartRef # -1 THEN activeStartRef + 1 ELSE activeStartRef
  /\ recordedMs' = IF status = "recording" THEN recordedMs + 1 ELSE recordedMs
  /\ done' = NoDone
  /\ UNCHANGED <<envVars, stateVars, mediaRecorderRef, streamRef, chunksRef, pcmFramesRef,
                 audioContextRef, sourceNodeRef, processorNodeRef, gainNodeRef,
                 elapsedBeforePauseRef, autoStopTimeoutRef, platformVars, onStopCalls,
                 onErrorCalls, procs, calls>>

\* the requestAnimationFrame tick, lines 440-443
RafTick ==
  /\ mounted
  /\ durationMs # computeDuration(World)
  /\ Commit([World EXCEPT !.durationMs = computeDuration(World)])
  /\ done' = NoDone
  /\ UNCHANGED <<envVars, procs, recordedMs, calls>>

(* ---- the specification ---- *)

MrIds == 1..MaxMrStarts
NoMrProcessor == [created |-> FALSE, handler |-> FALSE, portOpen |-> FALSE,
                  connected |-> FALSE, delivered |-> 0]
\* op, ok: the call and whether it returned; blob: the bytes of the Blob returned;
\* open, plain, fed: whether a recording was in progress, whether it was a plain
\* one, and the buffers it had been fed
NoMrDone == [op |-> "none", ok |-> TRUE, blob |-> <<>>, open |-> FALSE, plain |-> FALSE,
             fed |-> <<>>]

\* MultiRecorder's constructor, lines 83-90, and the field initializers, 74-81
MrConstructed ==
  /\ mr = [format |-> "wav", sampleRate |-> DefaultSampleRate, wavStream |-> 0,
           wavAudioCtx |-> 0, wavProcessor |-> 0, wavPcmData |-> <<>>]
  /\ mrTracks = [k \in MrIds |-> "none"]
  /\ mrContexts = [k \in MrIds |-> "none"]
  /\ mrProcessors = [k \in MrIds |-> NoMrProcessor]
  /\ mrCalls = <<>>
  /\ mrDone = NoMrDone
  \* open: startRecording() has been called and neither stopRecording() nor close()
  \* has returned since; plain: and that startRecording() was called with no
  \* other one under way, has not failed, and no other call has been made since;
  \* buffers: the non-empty buffers delivered meanwhile
  /\ mrFed = [open |-> FALSE, plain |-> FALSE, starts |-> 0, calls |-> 0,
              buffers |-> <<>>]

\* the hook after its first render, and the platform before any call
HookIdle(n) ==
  /\ mounted = TRUE
  /\ maxStarts = n
  /\ calls = 0
  /\ status = "idle" /\ recording = NoRecording /\ error = NoError
  /\ durationMs = 0 /\ bytes = 0 /\ stream = 0
  /\ mediaRecorderRef = 0 /\ streamRef = 0 /\ chunksRef = <<>> /\ pcmFramesRef = <<>>
  /\ audioContextRef = 0 /\ sourceNodeRef = 0 /\ processorNodeRef = 0 /\ gainNodeRef = 0
  /\ elapsedBeforePauseRef = 0 /\ activeStartRef = -1 /\ autoStopTimeoutRef = 0
  /\ tracks = [s \in SessionIds |-> "none"]
  /\ recorders = [s \in SessionIds |-> NoRecorder]
  /\ contexts = [s \in SessionIds |-> "none"]
  /\ nodes = [s \in SessionIds |-> NoNode]
  /\ timer = NoTimer
  /\ started = 0
  /\ onStopCalls = 0 /\ onErrorCalls = 0
  /\ procs = <<>>
  /\ done = NoDone
  /\ recordedMs = 0

\* no function of the library has been called directly
LibIdle ==
  /\ detected = <<>>
  /\ pcm = NoPcm
  /\ encoded = NoEncoded
  /\ MrConstructed

\* (the runtimes: MediaRecorder and navigator.mediaDevices exist in a browser only)
\* a browser whose MediaRecorder records webm natively and wav and mp3 not at all
DefaultRuntime ==
  /\ isBrowser = TRUE
  /\ hasMediaRecorder = TRUE
  /\ nativeFormats = {"webm"}
  /\ throwingFormats = {}

InitHook(n) ==
  /\ DefaultRuntime
  /\ hasMediaDevices \in BOOLEAN
  /\ HookIdle(n)
  /\ LibIdle

Init == InitHook(MaxSessions)

Next ==
  \/ \E f \in Formats, a \in BOOLEAN : CallStart(f, a)
  \/ \E p \in ProcIds : GumResolve(p)
  \/ \E p \in ProcIds : GumReject(p)
  \/ \E p \in ProcIds : WorkletLoaded(p)
  \/ \E p \in ProcIds : WorkletFailed(p)
  \/ \E p \in ProcIds : CloseResolved(p)
  \/ \E f \in StopFormats : CallStop(f)
  \/ TimerFire
  \/ \E r \in SessionIds : ChunkEvent(r)
  \/ \E r \in SessionIds : RecorderStopEvent(r)
  \/ \E r \in SessionIds : RecorderErrorEvent(r)
  \/ \E c \in SessionIds : FrameEvent(c)
  \/ CallPause
  \/ CallResume
  \/ CallReset
  \/ Unmount

Spec == Init /\ [][Next]_vars

\* The same hook with the clock followed: time passes and the duration tick runs.
InitClock == InitHook(ClockSessions)

NextClock ==
  \/ Next
  \/ Tick
  \/ RafTick

SpecClock == InitClock /\ [][NextClock]_vars

\* The same hook in any runtime: with or without MediaRecorder, and with any answer
\* of isTypeSupported for each format, a thrown exception included.
Runtimes ==
  /\ isBrowser \in BOOLEAN
  /\ hasMediaDevices \in {b \in BOOLEAN : b => isBrowser}
  /\ hasMediaRecorder \in {b \in BOOLEAN : b => isBrowser}
  /\ nativeFormats \in (IF hasMediaRecorder THEN SUBSET Formats ELSE {{}})
  /\ throwingFormats \in (IF hasMediaRecorder THEN SUBSET (Formats \ nativeFormats) ELSE {{}})

InitRuntime ==
  /\ Runtimes
  /\ HookIdle(ClockSessions)
  /\ LibIdle

SpecRuntime == InitRuntime /\ [][Next]_vars

(* ---- the library's functions, called directly ---- *)

\* detectRecorderSupport() is called and returns
CallDetect ==
  /\ Len(detected) < MaxDetects
  /\ detected' = Append(detected, detectRecorderSupport)
  /\ UNCHANGED <<runtimeVars, hookVars, pcm, encoded, mrVars>>

\* detectRecorderSupport in any runtime, with no hook call under way
InitDetect == InitRuntime
NextDetect == CallDetect
SpecDetect == InitDetect /\ [][NextDetect]_vars

(* ---- the encoders (utils/pcm, utils/mp3) ---- *)

Min(a, b) == IF a < b THEN a ELSE b
Max(a, b) == IF a > b THEN a ELSE b

\* integer part of num / den, den > 0: what storing a number in an Int16 keeps of it
TruncDiv(num, den) == IF num >= 0 THEN num \div den ELSE 0 - ((0 - num) \div den)

\* DataView.setUint16, setUint32 and setInt16: the bytes written, in address order
U16LE(v) == <<v % 256, (v \div 256) % 256>>
U32LE(v) == <<v % 256, (v \div 256) % 256, (v \div 65536) % 256, (v \div 16777216) % 256>>
U32BE(v) == <<(v \div 16777216) % 256, (v \div 65536) % 256, (v \div 256) % 256, v % 256>>
Int16LE(i) == U16LE(i % 65536)

\* ToInt16 of the number num / SampleScale: truncated, then wrapped to 16 bits
ToInt16(num) == ((TruncDiv(num, SampleScale) + 32768) % 65536) - 32768

\* the conversion without the clamp of line 88
sampleUnclamped(v) ==
  ToInt16(IF v < 0 THEN v * NegScale ELSE v * PosScale)

\* pcm.ts lines 88-89 (and 25-26; mp3.ts 17-18; multi-recorder.ts 23-24): the
\* sample is clamped to [-1, 1], scaled by 0x8000 or 0x7fff and stored as an Int16
sampleToInt16(v) ==
  LET sample == Max(0 - SampleScale, Min(SampleScale, v))
  IN ToInt16(IF sample < 0 THEN sample * NegScale ELSE sample * PosScale)

\* `frame[0]?.length ?? 0`
FrameLength(frame) == IF Len(frame) >= 1 THEN Len(frame[1]) ELSE 0

RECURSIVE TotalLength(_)
TotalLength(frames) ==
  IF frames = <<>> THEN 0 ELSE FrameLength(Head(frames)) + TotalLength(Tail(frames))

Zeros(n) == [i \in 1..n |-> 0]

\* set(input) without the offset of line 15: every frame is copied to the start
SetAtStart(array, input, offset) ==
  [i \in 1..Len(array) |-> IF i <= Len(input) THEN input[i] ELSE array[i]]

\* TypedArray.prototype.set(input, offset)
SetAt(array, input, offset) ==
  [i \in 1..Len(array) |->
     IF i > offset /\ i <= offset + Len(input) THEN input[i - offset] ELSE array[i]]

\* mergePCMFrames, lines 11-18: the frames from the k-th on are copied into the
\* merged channel buffers, the k-th at `offset`
RECURSIVE MergeFrom(_, _, _, _, _)
MergeFrom(merged, frames, k, offset, channels) ==
  IF k > Len(frames) THEN merged
  ELSE LET frame == frames[k]
           next == [ch \in 1..channels |->
                      SetAt(merged[ch],
                            IF ch <= Len(frame) THEN frame[ch]
                            ELSE Zeros(FrameLength(frame)),
                            offset)]
       IN MergeFrom(next, frames, k + 1, offset + FrameLength(frame), channels)

\* mergePCMFrames, lines 3-21
mergePCMFrames(frames, channels) ==
  IF frames = <<>> THEN [ch \in 1..channels |-> <<>>]
  ELSE MergeFrom([ch \in 1..channels |-> Zeros(TotalLength(frames))], frames, 1, 0,
                 channels)

\* writeWavHeader, lines 30-74
writeWavHeader(sampleRate, channels, bytesLength) ==
  LET blockAlign == channels * 2
      byteRate == sampleRate * blockAlign
  IN U32BE(RiffId) \o U32LE(36 + bytesLength) \o U32BE(WaveId) \o U32BE(FmtId)
       \o U32LE(16) \o U16LE(1) \o U16LE(channels) \o U32LE(sampleRate)
       \o U32LE(byteRate) \o U16LE(blockAlign) \o U16LE(16) \o U32BE(DataId)
       \o U32LE(bytesLength)

\* encodeWav, lines 84-92: the samples from the i-th on, channel-interleaved
RECURSIVE InterleaveFrom(_, _, _)
InterleaveFrom(merged, i, channels) ==
  IF i > Len(merged[1]) THEN <<>>
  ELSE LET RECURSIVE Row(_)
           Row(ch) == IF ch > channels THEN <<>>
                      ELSE Int16LE(sampleToInt16(merged[ch][i])) \o Row(ch + 1)
       IN Row(1) \o InterleaveFrom(merged, i + 1, channels)

\* encodeWav, lines 76-95.  Without a channel `merged[0]?.length * 2 * channelCount`
\* is NaN, the buffer has no bytes and writing the header throws a RangeError.
encodeWav(frames, sampleRate, channels) ==
  IF channels = 0 THEN [threw |-> TRUE, bytes |-> <<>>]
  ELSE LET merged == mergePCMFrames(frames, channels)
           bytesLength == Len(merged[1]) * 2 * channels
       IN [threw |-> FALSE,
           bytes |-> writeWavHeader(sampleRate, channels, bytesLength)
                       \o InterleaveFrom(merged, 1, channels)]

\* mp3.ts, float32ToInt16, lines 14-21: each sample clamped, scaled and stored in
\* an Int16Array
float32ToInt16(buffer) ==
  [i \in 1..Len(buffer) |->
     LET sample == Max(0 - SampleScale, Min(SampleScale, buffer[i]))
     IN ToInt16(IF sample < 0 THEN sample * NegScale ELSE sample * PosScale)]

\* the checks with `channelCount > 2` of line 44 left out
mp3InputValidUpTo(frames, channels) ==
  /\ frames # <<>>
  /\ ~(channels < 1)

\* encodeMp3, lines 40-46: the checks before anything is loaded
mp3InputValid(frames, channels) ==
  /\ frames # <<>>
  /\ ~(channels < 1 \/ channels > 2)

\* The bytes the external encoder returns from its call number `call`: the model
\* names each byte by the call and its place in the chunk.
ChunkOf(call, length) == [j \in 1..length |-> 16 * call + j]

RECURSIVE Flatten(_)
Flatten(chunks) == IF chunks = <<>> THEN <<>> ELSE Head(chunks) \o Flatten(Tail(chunks))

\* encodeMp3, lines 53-67: the frames from the k-th on are fed to the encoder, which
\* returns lengths[k] bytes from its k-th call.  A frame without a first channel
\* makes float32ToInt16 throw a TypeError on line 15.
RECURSIVE FeedFrom(_, _, _, _, _)
FeedFrom(acc, frames, k, channels, lengths) ==
  IF k > Len(frames) THEN acc
  ELSE LET frame == frames[k]
       IN IF frame = <<>> THEN [acc EXCEPT !.threw = TRUE]
          ELSE LET left == float32ToInt16(frame[1])
                   right == float32ToInt16(IF Len(frame) >= 2 THEN frame[2] ELSE frame[1])
                   chunk == ChunkOf(k, lengths[k])
                   call == [op |-> "encodeBuffer", left |-> left, stereo |-> channels = 2,
                            right |-> IF channels = 2 THEN right ELSE <<>>, out |-> chunk]
               IN FeedFrom([acc EXCEPT !.calls = Append(@, call),
                                       !.parts = IF chunk # <<>> THEN Append(@, chunk) ELSE @],
                           frames, k + 1, channels, lengths)

\* encodeMp3 with the flush output of lines 70-72 put first instead of last
encodeMp3FlushFirst(frames, channels, lengths) ==
  LET fed == FeedFrom([threw |-> FALSE, calls |-> <<>>, parts |-> <<>>], frames, 1,
                      channels, lengths)
      flushChunk == ChunkOf(Len(frames) + 1, lengths[Len(frames) + 1])
      flush == [op |-> "flush", left |-> <<>>, stereo |-> FALSE, right |-> <<>>,
                out |-> flushChunk]
  IN IF fed.threw THEN fed
     ELSE [fed EXCEPT !.calls = Append(@, flush),
                      !.parts = IF flushChunk # <<>> THEN <<flushChunk>> \o @ ELSE @]

\* encodeMp3, lines 50-74, once lamejs is loaded
encodeMp3Body(frames, channels, lengths) ==
  LET fed == FeedFrom([threw |-> FALSE, calls |-> <<>>, parts |-> <<>>], frames, 1,
                      channels, lengths)
      flushChunk == ChunkOf(Len(frames) + 1, lengths[Len(frames) + 1])
      flush == [op |-> "flush", left |-> <<>>, stereo |-> FALSE, right |-> <<>>,
                out |-> flushChunk]
  IN IF fed.threw THEN fed
     ELSE [fed EXCEPT !.calls = Append(@, flush),
                      !.parts = IF flushChunk # <<>> THEN Append(@, flushChunk) ELSE @]

\* multi-recorder.ts, writeString, lines 15-19: the char codes of the string
writeString(codes) == codes

\* multi-recorder.ts, floatTo16BitPCM, lines 21-26
floatTo16BitPCM(input) ==
  LET RECURSIVE From(_)
      From(i) ==
        IF i > Len(input) THEN <<>>
        ELSE LET sample == Max(0 - SampleScale, Min(SampleScale, input[i]))
             IN Int16LE(ToInt16(IF sample < 0 THEN sample * NegScale
                                ELSE sample * PosScale)) \o From(i + 1)
  IN From(1)

\* multi-recorder.ts, mergeFloat32Arrays, lines 28-37
mergeFloat32Arrays(arrays) ==
  LET RECURSIVE Total(_)
      Total(as) == IF as = <<>> THEN 0 ELSE Len(Head(as)) + Total(Tail(as))
      RECURSIVE CopyFrom(_, _, _)
      CopyFrom(result, k, offset) ==
        IF k > Len(arrays) THEN result
        ELSE CopyFrom(SetAt(result, arrays[k], offset), k + 1, offset + Len(arrays[k]))
  IN CopyFrom(Zeros(Total(arrays)), 1, 0)

\* multi-recorder.ts, encodeWav, lines 39-64: a mono 16-bit header and the samples
mrEncodeWav(samples, sampleRate) ==
  writeString(<<82, 73, 70, 70>>) \o U32LE(36 + Len(samples) * 2)
    \o writeString(<<87, 65, 86, 69>>) \o writeString(<<102, 109, 116, 32>>)
    \o U32LE(16) \o U16LE(1) \o U16LE(1) \o U32LE(sampleRate) \o U32LE(sampleRate * 2)
    \o U16LE(2) \o U16LE(16) \o writeString(<<100, 97, 116, 97>>)
    \o U32LE(Len(samples) * 2) \o floatTo16BitPCM(samples)

\* the first-channel buffers of the frames that have one: the buffers a mono
\* worklet delivers
RECURSIVE MonoBuffers(_)
MonoBuffers(frames) ==
  IF frames = <<>> THEN <<>>
  ELSE (IF Head(frames) = <<>> THEN <<>> ELSE <<Head(frames)[1]>>)
         \o MonoBuffers(Tail(frames))

\* the inputs the encoders are called with
SampleValues == {0 - SampleScale - 1, 0 - SampleScale, 0 - 1, 0, 1, SampleScale,
                 SampleScale + 1}
SampleRates == {8000, 48000}
ChannelCounts == 0..3
Buffers == UNION {[1..n -> SampleValues] : n \in 0..MaxSamples}
\* a frame has no, one or two channel buffers, all of one length
Frames == {<<>>} \cup {<<b>> : b \in Buffers}
            \cup {fr \in Buffers \X Buffers : Len(fr[1]) = Len(fr[2])}
FrameLists == UNION {[1..n -> Frames] : n \in 0..MaxFrameList}

\* encodeWav(frames, sampleRate, channelCount) is called and returns or throws
EncodeWav ==
  /\ encoded.fn = "none"
  /\ LET r == encodeWav(pcm.frames, pcm.sampleRate, pcm.channelCount)
     IN encoded' = [NoEncoded EXCEPT !.fn = "encodeWav", !.bytes = r.bytes,
                                     !.state = IF r.threw THEN "threw" ELSE "returned"]
  /\ UNCHANGED <<runtimeVars, hookVars, detected, pcm, mrVars>>

\* encodeMp3(frames, sampleRate, channelCount) is called: lines 40-49, up to the
\* await of the lamejs import
EncodeMp3 ==
  /\ encoded.fn = "none"
  /\ encoded' = IF mp3InputValid(pcm.frames, pcm.channelCount)
                  THEN [NoEncoded EXCEPT !.fn = "encodeMp3", !.state = "loading",
                                         !.loads = 1]
                  ELSE [NoEncoded EXCEPT !.fn = "encodeMp3", !.state = "threw"]
  /\ UNCHANGED <<runtimeVars, hookVars, detected, pcm, mrVars>>

\* the import of lamejs resolves: lines 50-74.  The encoder returns any bytes.
Mp3Loaded ==
  /\ encoded.fn = "encodeMp3" /\ encoded.state = "loading"
  /\ \E lengths \in [1..(Len(pcm.frames) + 1) -> 0..MaxChunkBytes] :
       LET r == encodeMp3Body(pcm.frames, pcm.channelCount, lengths)
       IN encoded' = [encoded EXCEPT !.state = IF r.threw THEN "threw" ELSE "returned",
                                     !.calls = r.calls,
                                     !.parts = IF r.threw THEN <<>> ELSE r.parts,
                                     !.bytes = IF r.threw THEN <<>> ELSE Flatten(r.parts)]
  /\ UNCHANGED <<runtimeVars, hookVars, detected, pcm, mrVars>>

\* the import of lamejs is rejected: the call rejects with that error
Mp3LoadFailed ==
  /\ encoded.fn = "encodeMp3" /\ encoded.state = "loading"
  /\ encoded' = [encoded EXCEPT !.state = "unavailable"]
  /\ UNCHANGED <<runtimeVars, hookVars, detected, pcm, mrVars>>

\* MultiRecorder's encodeWav(mergeFloat32Arrays(buffers), sampleRate) is evaluated,
\* as stopRecording does on lines 168-169
MultiEncodeWav ==
  /\ encoded.fn = "none"
  /\ encoded' = [NoEncoded EXCEPT
                   !.fn = "multiEncodeWav", !.state = "returned",
                   !.bytes = mrEncodeWav(mergeFloat32Arrays(MonoBuffers(pcm.frames)),
                                         pcm.sampleRate)]
  /\ UNCHANGED <<runtimeVars, hookVars, detected, pcm, mrVars>>

\* the encoders, called with any frame list, sample rate and channel count
InitCodec ==
  /\ DefaultRuntime
  /\ hasMediaDevices = TRUE
  /\ HookIdle(ClockSessions)
  /\ detected = <<>>
  /\ pcm \in [frames : FrameLists, sampleRate : SampleRates, channelCount : ChannelCounts]
  /\ encoded = NoEncoded
  /\ MrConstructed

NextCodec ==
  \/ EncodeWav
  \/ EncodeMp3
  \/ Mp3Loaded
  \/ Mp3LoadFailed
  \/ MultiEncodeWav

SpecCodec == InitCodec /\ [][NextCodec]_vars

(* ---- MultiRecorder, format wav (multi-recorder.ts) ---- *)

MrOthers == <<runtimeVars, hookVars, detected, pcm, encoded>>
\* buffers a worklet node posts: none, or one sample
MrBuffers == {<<>>, <<1>>, <<0 - 1>>}

MrParked == 1..Len(mrCalls)
MrUnpark(i) == [j \in 1..(Len(mrCalls) - 1) |-> IF j < i THEN mrCalls[j] ELSE mrCalls[j + 1]]

\* init(), lines 101-105
MrInit ==
  /\ mrFed.calls < MaxMrCalls
  /\ mr' = [mr EXCEPT !.wavPcmData = <<>>]
  /\ mrDone' = [NoMrDone EXCEPT !.op = "init"]
  /\ mrFed' = [mrFed EXCEPT !.calls = @ + 1, !.plain = FALSE]
  /\ UNCHANGED <<mrTracks, mrContexts, mrProcessors, mrCalls, MrOthers>>

\* startRecording() is called, lines 115-117: getUserMedia is requested
MrStartRecording ==
  /\ mrFed.calls < MaxMrCalls
  /\ mrFed.starts < MaxMrStarts
  /\ mrCalls' = Append(mrCalls, [pc |-> "gum", id |-> mrFed.starts + 1])
  /\ mrFed' = [open |-> TRUE, plain |-> ~mrFed.open /\ mrCalls = <<>>, starts |-> mrFed.starts + 1,
               calls |-> mrFed.calls + 1,
               buffers |-> IF mrFed.open THEN mrFed.buffers ELSE <<>>]
  /\ mrDone' = NoMrDone
  /\ UNCHANGED <<mr, mrTracks, mrContexts, mrProcessors, MrOthers>>

\* getUserMedia resolves, lines 117-124: the stream and a new context are stored
\* and the worklet module is requested
MrGumResolve(i) ==
  /\ i \in MrParked
  /\ mrCalls[i].pc = "gum"
  /\ LET k == mrCalls[i].id
     IN /\ mrTracks' = [mrTracks EXCEPT ![k] = "live"]
        /\ mrContexts' = [mrContexts EXCEPT ![k] = "running"]
        /\ mr' = [mr EXCEPT !.wavStream = k, !.wavAudioCtx = k]
  /\ mrCalls' = [mrCalls EXCEPT ![i].pc = "addModule"]
  /\ mrDone' = NoMrDone
  /\ UNCHANGED <<mrProcessors, mrFed, MrOthers>>

\* getUserMedia rejects: startRecording() rejects
MrGumReject(i) ==
  /\ i \in MrParked
  /\ mrCalls[i].pc = "gum"
  /\ mrCalls' = MrUnpark(i)
  /\ mrDone' = [NoMrDone EXCEPT !.op = "startRecording", !.ok = FALSE]
  /\ mrFed' = [mrFed EXCEPT !.plain = FALSE]
  /\ UNCHANGED <<mr, mrTracks, mrContexts, mrProcessors, MrOthers>>

\* addModule resolves, lines 126-139: the source and the worklet node are made,
\* the handler is set, the node is connected and stored
MrModuleLoaded(i) ==
  /\ i \in MrParked
  /\ mrCalls[i].pc = "addModule"
  /\ LET k == mrCalls[i].id
     IN /\ mrProcessors' = [mrProcessors EXCEPT ![k] =
                              [created |-> TRUE, handler |-> TRUE, portOpen |-> TRUE,
                               connected |-> TRUE, delivered |-> 0]]
        /\ mr' = [mr EXCEPT !.wavProcessor = k]
  /\ mrCalls' = MrUnpark(i)
  /\ mrDone' = [NoMrDone EXCEPT !.op = "startRecording"]
  /\ UNCHANGED <<mrTracks, mrContexts, mrFed, MrOthers>>

\* addModule rejects: startRecording() rejects, the stream and the context stay
MrModuleFailed(i) ==
  /\ i \in MrParked
  /\ mrCalls[i].pc = "addModule"
  /\ mrCalls' = MrUnpark(i)
  /\ mrDone' = [NoMrDone EXCEPT !.op = "startRecording", !.ok = FALSE]
  /\ mrFed' = [mrFed EXCEPT !.plain = FALSE]
  /\ UNCHANGED <<mr, mrTracks, mrContexts, mrProcessors, MrOthers>>

\* port.onmessage, lines 130-135: a node whose port is open delivers a buffer
MrDeliver(k, buffer) ==
  /\ mrProcessors[k].handler /\ mrProcessors[k].portOpen
  /\ mrContexts[k] = "running"
  /\ mrProcessors[k].delivered < MaxDeliveries
  /\ mrProcessors' = [mrProcessors EXCEPT ![k].delivered = @ + 1]
  /\ mr' = IF Len(buffer) > 0 THEN [mr EXCEPT !.wavPcmData = Append(@, buffer)] ELSE mr
  /\ mrFed' = IF Len(buffer) > 0 /\ mrFed.open
                THEN [mrFed EXCEPT !.buffers = Append(@, buffer)] ELSE mrFed
  /\ mrDone' = NoMrDone
  /\ UNCHANGED <<mrTracks, mrContexts, mrCalls, MrOthers>>

\* stopRecording(), lines 152-175
MrStopRecording ==
  /\ mrFed.calls < MaxMrCalls
  /\ IF mr.wavProcessor = 0 \/ mr.wavAudioCtx = 0 \/ mr.wavStream = 0
       THEN /\ mrDone' = [NoMrDone EXCEPT !.op = "stopRecording", !.ok = FALSE,
                                          !.open = mrFed.open, !.plain = mrFed.plain,
                                          !.fed = mrFed.buffers]
            /\ mrFed' = [mrFed EXCEPT !.calls = @ + 1]
            /\ UNCHANGED <<mr, mrTracks, mrProcessors>>
       ELSE /\ mrProcessors' = [mrProcessors EXCEPT ![mr.wavProcessor].connected = FALSE]
            /\ mrTracks' = [mrTracks EXCEPT ![mr.wavStream] = "ended"]
            /\ mrDone' = [NoMrDone EXCEPT
                            !.op = "stopRecording",
                            !.blob = mrEncodeWav(mergeFloat32Arrays(mr.wavPcmData),
                                                 mr.sampleRate),
                            !.open = mrFed.open, !.plain = mrFed.plain,
                                          !.fed = mrFed.buffers]
            /\ mr' = [mr EXCEPT !.wavPcmData = <<>>]
            /\ mrFed' = [mrFed EXCEPT !.calls = @ + 1, !.open = FALSE, !.plain = FALSE,
                                    !.buffers = <<>>]
  /\ UNCHANGED <<mrContexts, mrCalls, MrOthers>>

\* close(), lines 184-212
MrClose ==
  /\ mrFed.calls < MaxMrCalls
  /\ mrProcessors' = IF mr.wavProcessor # 0
                       THEN [mrProcessors EXCEPT ![mr.wavProcessor].portOpen = FALSE,
                                                 ![mr.wavProcessor].connected = FALSE]
                       ELSE mrProcessors
  /\ mrTracks' = IF mr.wavStream # 0 THEN [mrTracks EXCEPT ![mr.wavStream] = "ended"]
                 ELSE mrTracks
  /\ mrContexts' = IF mr.wavAudioCtx # 0
                     THEN [mrContexts EXCEPT ![mr.wavAudioCtx] = "closing"]
                     ELSE mrContexts
  /\ mr' = [mr EXCEPT !.wavProcessor = 0, !.wavStream = 0, !.wavAudioCtx = 0,
                      !.wavPcmData = <<>>]
  /\ mrDone' = [NoMrDone EXCEPT !.op = "close", !.open = mrFed.open,
                                !.fed = mrFed.buffers]
  /\ mrFed' = [mrFed EXCEPT !.calls = @ + 1, !.open = FALSE, !.plain = FALSE,
                                    !.buffers = <<>>]
  /\ UNCHANGED <<mrCalls, MrOthers>>

InitMulti ==
  /\ DefaultRuntime
  /\ hasMediaDevices = TRUE
  /\ HookIdle(ClockSessions)
  /\ LibIdle

NextMulti ==
  \/ MrInit
  \/ MrStartRecording
  \/ \E i \in MrIds : MrGumResolve(i)
  \/ \E i \in MrIds : MrGumReject(i)
  \/ \E i \in MrIds : MrModuleLoaded(i)
  \/ \E i \in MrIds : MrModuleFailed(i)
  \/ \E k \in MrIds, b \in MrBuffers : MrDeliver(k, b)
  \/ MrStopRecording
  \/ MrClose

SpecMulti == InitMulti /\ [][NextMulti]_vars

(* ---- properties ---- *)

\* No microphone track is running, no recorder is active, no processing node is
\* connected and no audio context is open.
Released ==
  \A s \in SessionIds :
    /\ tracks[s] # "live"
    /\ recorders[s].state \in {"none", "inactive"}
    /\ ~nodes[s].src /\ ~nodes[s].out
    /\ contexts[s] \in {"none", "closed"}

\* C1: the descriptor returned by a stop() invoked in status recording or paused
\* has as duration the time the session had spent in status recording when stop()
\* was invoked.
C1_DurationIsRecordedTime ==
  (done.op = "stop" /\ done.from \in {"recording", "paused"} /\ done.ret # NoRecording)
    => done.ret.duration = done.recAt

\* C2: a stop() invoked in status recording or paused returns a descriptor, which
\* is the current recording and has been passed to onStop.
C2_StopProducesDescriptor ==
  (done.op = "stop" /\ done.from \in {"recording", "paused"})
    => /\ done.ret # NoRecording
       /\ recording = done.ret
       /\ onStopCalls >= done.ret.id

\* C3: when a start() that failed returns, status is unsupported.
C3_FailedStartIsUnsupported ==
  (done.op = "start" /\ ~done.ok) => status = "unsupported"

\* C4: when the handling of a failure has completed (a failed start() has returned,
\* or the recorder's error handler has run), nothing the hook acquired is open.
C4_FailureReleasesAll ==
  (done.op = "onerror" \/ (done.op = "start" /\ ~done.ok)) => Released

\* C5: a start() that returns has either failed, and then it called onError once
\* and the last value it passed to setError is its failure, or succeeded, and then
\* it called onError not at all and passed null to setError, once.
C5_StartReportsOnce ==
  done.op = "start"
    => IF done.ok
         THEN done.errCalls = 0 /\ done.errLog = <<NoError>>
         ELSE /\ done.errCalls = 1
              /\ done.errLog # <<>>
              /\ done.errLog[Len(done.errLog)] = StartError(done.sid)

\* a start() that acquired the microphone, cleared the error and then failed
C5_FailedAfterClearing ==
  done.op = "start" /\ ~done.ok /\ Len(done.errLog) = 2

\* C6: a stop() invoked directly after a stop() that completed a session with a
\* descriptor returns that descriptor, and no other descriptor has been created.
C6_SecondStopReturnsSame ==
  (done.op = "stop" /\ done.by = "user" /\ done.prevRet # NoRecording)
    => /\ done.ret = done.prevRet
       /\ recording = done.prevRet
       /\ onStopCalls = done.prevRet.id

\* C7: when the stop() the auto-stop timer invoked has returned, status is stopped,
\* there is a current recording and the microphone is released.
C7_TimerStopsSession ==
  (done.op = "stop" /\ done.by = "timer")
    => /\ status = "stopped"
       /\ recording # NoRecording
       /\ stream = 0
       /\ \A s \in SessionIds : tracks[s] # "live"

\* C8: no auto-stop timer is armed while a stop(), reset() or unmount teardown the
\* caller invoked is in flight, nor when no session is active (status idle, stopped
\* or unsupported, and no live track).
C8_TimerDisarmed ==
  /\ (\E p \in Parked : \/ procs[p].op \in {"reset", "unmount"}
                        \/ procs[p].op = "stop" /\ procs[p].by = "user")
       => ~timer.armed
  /\ (status \in {"idle", "stopped", "unsupported"} /\ \A s \in SessionIds : tracks[s] # "live")
       => ~timer.armed

\* C9: when reset() has completed, status is idle, the recording and the error are
\* null, and the duration and the byte counter are 0.
C9_ResetClearsState ==
  done.op = "reset"
    => /\ status = "idle"
       /\ recording = NoRecording
       /\ error = NoError
       /\ durationMs = 0
       /\ bytes = 0

\* C10: when a stop() invoked in recording or paused, a reset() or the unmount
\* teardown has completed, everything is released: tracks stopped, recorder stopped
\* and dropped, node disconnected, context closed, chunks and frames cleared, and
\* the stream exposed to the caller null.
C10_CompletionReleasesAll ==
  (\/ done.op = "stop" /\ done.from \in {"recording", "paused"}
   \/ done.op \in {"reset", "unmount"})
    => /\ Released
       /\ mediaRecorderRef = 0 /\ processorNodeRef = 0 /\ audioContextRef = 0
       /\ chunksRef = <<>> /\ pcmFramesRef = <<>>
       /\ streamRef = 0 /\ stream = 0

\* C11: an operation invoked outside its valid states changes nothing: pause()
\* when status is not recording, resume() when status is not paused and stop()
\* when status is idle or unsupported leave the hook and the platform as they
\* are, that stop() returns the recording held, and while status is recording
\* no start() goes past its guard.
C11_InvalidCallsAreNoOps ==
  [][/\ status # "recording" => pause(World) = World
     /\ status # "paused" => resume(World) = World
     /\ status \in {"idle", "unsupported"}
          => \A f \in StopFormats :
               LET b == stopBody(World, status, recording, f)
               IN b.kind = "return" /\ b.w = World /\ b.result = recording
     /\ status = "recording" => started' = started]_vars

\* a stop() invoked in status idle has returned the recording of an earlier session
C11_StopInIdleReturnsHeld ==
  done.op = "stop" /\ done.by = "user" /\ done.from = "idle" /\ done.ret # NoRecording

\* C12: a stop() invoked in status idle returns null.
C12_StopInIdleReturnsNull ==
  (done.op = "stop" /\ done.by = "user" /\ done.from = "idle") => done.ret = NoRecording

\* C13: at the step in which start() acquires a stream and status becomes
\* recording, the byte counter is 0 and the elapsed time is 0.
C13_SessionStartsFromZero ==
  [][\A s \in SessionIds :
       (tracks[s] = "none" /\ tracks'[s] = "live" /\ status' = "recording")
         => bytes' = 0 /\ elapsedBeforePauseRef' = 0 /\ activeStartRef' = 0]_vars

\* C14: at most one microphone stream is live, and a live stream is the one
\* streamRef holds, through which it will be released.
C14_OneLiveStream ==
  \A s \in SessionIds : tracks[s] = "live" => streamRef = s

\* C15: once status is unsupported, only a reset() that completes changes it.
C15_UnsupportedUntilReset ==
  [][(status = "unsupported" /\ status' # "unsupported") => done'.op = "reset"]_vars

\* C16: whenever a recorder can deliver a chunk, its handler adds the size of a
\* non-empty chunk to the byte counter, stores it and calls onChunk with the
\* number of non-empty chunks the recorder delivered before; an empty chunk
\* changes nothing.
C16_ChunkCountedAndIndexed ==
  \A r \in SessionIds :
    (recorders[r].state = "recording" \/ recorders[r].stopQueued)
      => \A size \in ChunkSizes :
           LET w == ondataavailable(World, r, size)
           IN IF size = 0 THEN w = World
              ELSE /\ w.bytes = bytes + size
                   /\ Len(w.chunksRef) = Len(chunksRef) + 1
                   /\ w.chunksRef[Len(w.chunksRef)].index = recorders[r].emitted

\* The chunks recorder r has emitted, in emission order
EmittedBy(r, data) ==
  /\ Len(data) = recorders[r].emitted
  /\ \A i \in 1..Len(data) : data[i].rec = r /\ data[i].seq = i

\* C17: the descriptor a stop() on the native path returns holds every non-empty
\* chunk its recorder emitted, in emission order, and its size is their sum.
C17_NativePayloadComplete ==
  (done.op = "stop" /\ done.sid # 0)
    => /\ done.ret # NoRecording
       /\ EmittedBy(done.sid, done.ret.data)
       /\ done.ret.size = SumSizes(done.ret.data)

\* C18: when a second stop() has returned while an earlier stop() still waits for
\* the stop event of the same recorder, chunksRef still holds every chunk the
\* recorder has delivered.
C18_SecondStopKeepsChunks ==
  \A p \in Parked :
    (/\ procs[p].op = "stop" /\ procs[p].pc = "waitStop"
     /\ done.op = "stop" /\ done.from = "stopped" /\ done.sid = procs[p].sid)
      => EmittedBy(procs[p].sid, chunksRef)

\* C19: while status is recording or paused the elapsed time computeDuration
\* gives is the time the session has spent in status recording, and a step that
\* publishes a duration (the duration tick) publishes that value and changes
\* neither the frozen total nor the running timestamp.
C19_ElapsedIsRecordedTime ==
  [][/\ status' \in {"recording", "paused"} => computeDuration(World)' = recordedMs'
     /\ (durationMs' # durationMs /\ durationMs' # 0)
          => /\ durationMs' = computeDuration(World)
             /\ UNCHANGED <<elapsedBeforePauseRef, activeStartRef>>]_vars

\* a session that recorded, was paused and resumed, and recorded again
C19_ResumedAndRunning ==
  status = "recording" /\ elapsedBeforePauseRef > 0 /\ activeStartRef > 0

\* C20: when the loading of the worklet module a start() waits for settles, the
\* start() goes on without reporting an error: a processing node with its frame
\* handler exists for the session, onError is not called and error is unchanged.
C20_WorkletFailureFallsBack ==
  [][\A p \in Parked :
       (/\ procs[p].op = "start" /\ procs[p].pc = "worklet"
        /\ \A q \in 1..Len(procs') :
             ~(procs'[q].op = "start" /\ procs'[q].sid = procs[p].sid
               /\ procs'[q].pc = "worklet"))
         => /\ onErrorCalls' = onErrorCalls
            /\ error' = error
            /\ nodes'[procs[p].sid].handler]_vars

\* C21: the branch start() takes agrees with `supports`: the native path exactly
\* when supports[format] is true; otherwise the raw tap for wav and the
\* format-unsupported error for any other format, also when a probe throws.
C21_PathAgreesWithSupports ==
  (done.op = "start" /\ done.path # "none")
    => done.path = (IF supports[done.format] THEN "native"
                    ELSE IF done.format = "wav" THEN "rawtap" ELSE "unsupported")

\* C22: a call of detectRecorderSupport does not throw and returns a boolean for
\* each format: false for every format without MediaRecorder; else what the runtime
\* reports for the format, and false for a format whose probe throws.  It changes
\* nothing, and returns the same map as the call before it.
C22_DetectNeverThrows ==
  [][Len(detected') > Len(detected)
       => LET d == detected'[Len(detected')]
          IN /\ ~d.threw
             /\ d.caps \in [Formats -> BOOLEAN]
             /\ \A f \in Formats :
                  d.caps[f] = (hasMediaRecorder /\ f \in nativeFormats
                                 /\ f \notin throwingFormats)
             /\ UNCHANGED <<runtimeVars, hookVars>>
             /\ detected # <<>> => d = detected[Len(detected)]]_vars

\* a second call in a runtime where one probe throws and another affirms
C22_DetectedTwiceWithThrow ==
  Len(detected) = 2 /\ throwingFormats # {} /\ nativeFormats # {}

\* What a reader of a WAV file finds in its first 44 bytes: whether the chunk
\* identifiers RIFF, WAVE, "fmt " and data stand where the format has them, and the
\* little-endian fields between them.
LE16(b, at) == b[at + 1] + 256 * b[at + 2]
LE32(b, at) == b[at + 1] + 256 * b[at + 2] + 65536 * b[at + 3] + 16777216 * b[at + 4]
ReadWavHeader(b) ==
  [container |-> /\ SubSeq(b, 1, 4) = <<82, 73, 70, 70>>
                 /\ SubSeq(b, 9, 12) = <<87, 65, 86, 69>>
                 /\ SubSeq(b, 13, 16) = <<102, 109, 116, 32>>
                 /\ SubSeq(b, 37, 40) = <<100, 97, 116, 97>>,
   riffSize |-> LE32(b, 4), fmtSize |-> LE32(b, 16), audioFormat |-> LE16(b, 20),
   channels |-> LE16(b, 22), sampleRate |-> LE32(b, 24), byteRate |-> LE32(b, 28),
   blockAlign |-> LE16(b, 32), bitsPerSample |-> LE16(b, 34), dataSize |-> LE32(b, 40)]

\* C23: for c in {1, 2}, any sample rate r and frames holding n samples per channel,
\* encodeWav returns 44 + n*c*2 bytes: a WAV header declaring RIFF size 36 + n*c*2,
\* fmt size 16, PCM, c channels, rate r, byte rate r*c*2, block align c*2, 16 bits
\* and data size n*c*2, from which a reader gets r, c and 16 bits back.
C23_WavHeaderRoundTrip ==
  (encoded.fn = "encodeWav" /\ pcm.channelCount \in {1, 2})
    => LET n == TotalLength(pcm.frames)
           c == pcm.channelCount
           r == pcm.sampleRate
       IN /\ encoded.state = "returned"
          /\ Len(encoded.bytes) = 44 + n * c * 2
          /\ ReadWavHeader(encoded.bytes) =
               [container |-> TRUE, riffSize |-> 36 + n * c * 2, fmtSize |-> 16,
                audioFormat |-> 1, channels |-> c, sampleRate |-> r,
                byteRate |-> r * c * 2, blockAlign |-> c * 2, bitsPerSample |-> 16,
                dataSize |-> n * c * 2]

\* the signed 16-bit little-endian integer at byte offset `at`
ReadInt16LE(b, at) ==
  LET u == LE16(b, at) IN IF u >= 32768 THEN u - 65536 ELSE u

\* the channel-ch buffers of the frames, concatenated in feed order; a frame
\* without channel ch counts as zeros of the frame's length
RECURSIVE ChannelInFeedOrder(_, _)
ChannelInFeedOrder(frames, ch) ==
  IF frames = <<>> THEN <<>>
  ELSE LET frame == Head(frames)
           own == IF ch <= Len(frame) THEN frame[ch]
                  ELSE [i \in 1..(IF frame = <<>> THEN 0 ELSE Len(frame[1])) |-> 0]
       IN own \o ChannelInFeedOrder(Tail(frames), ch)

\* C24: encodeWav keeps the order: the k-th 16-bit sample of channel ch, at byte
\* offset 44 + (k*c + ch)*2, is the conversion of the k-th sample of the channel-ch
\* buffers of all frames concatenated in feed order (zeros for a frame without the
\* channel), and the output holds no other sample.
C24_WavKeepsFeedOrder ==
  (encoded.fn = "encodeWav" /\ pcm.channelCount \in {1, 2})
    => LET c == pcm.channelCount
       IN \A ch \in 0..(c - 1) :
            LET fed == ChannelInFeedOrder(pcm.frames, ch + 1)
            IN /\ Len(encoded.bytes) = 44 + Len(fed) * c * 2
               /\ \A k \in 0..(Len(fed) - 1) :
                    ReadInt16LE(encoded.bytes, 44 + (k * c + ch) * 2)
                      = sampleToInt16(fed[k + 1])

\* two frames with different samples encoded in stereo, the second frame mono
C24_TwoFramesOneMono ==
  /\ encoded.fn = "encodeWav" /\ encoded.state = "returned"
  /\ pcm.channelCount = 2 /\ Len(pcm.frames) = 2
  /\ Len(pcm.frames[1]) = 2 /\ Len(pcm.frames[2]) = 1
  /\ Len(pcm.frames[1][1]) = 1 /\ Len(pcm.frames[2][1]) = 1
  /\ pcm.frames[1][1][1] = 1 /\ pcm.frames[1][2][1] = 0 - 1
  /\ pcm.frames[2][1][1] = SampleScale

\* the 16-bit value the sample v / SampleScale is to be written as
ConvertedAs(v, out) ==
  /\ out \in (0 - 32768)..32767
  /\ v <= 0 - SampleScale => out = 0 - 32768
  /\ v >= SampleScale => out = 32767
  /\ v = 0 => out = 0
  /\ (v < 0 /\ v > 0 - SampleScale) => out = 0 - (((0 - v) * 32768) \div SampleScale)
  /\ (v >= 0 /\ v < SampleScale) => out = (v * 32767) \div SampleScale

\* C25: encodeWav, the mp3 helper and MultiRecorder's WAV encoder convert alike:
\* the sample is clamped to [-1, 1], a negative one times 32768 and a non-negative
\* one times 32767, truncated toward zero to a signed 16-bit integer; so the value
\* lies in [-32768, 32767], is -32768 from -1 down, 32767 from 1 up and 0 for 0.
C25_SamplesClampedAndScaled ==
  /\ (encoded.fn = "encodeWav" /\ pcm.channelCount \in {1, 2})
       => \A ch \in 0..(pcm.channelCount - 1) :
            LET fed == ChannelInFeedOrder(pcm.frames, ch + 1)
            IN \A k \in 0..(Len(fed) - 1) :
                 ConvertedAs(fed[k + 1],
                             ReadInt16LE(encoded.bytes,
                                         44 + (k * pcm.channelCount + ch) * 2))
  /\ encoded.fn = "encodeMp3"
       => \A n \in 1..Len(encoded.calls) :
            encoded.calls[n].op = "encodeBuffer"
              => \A i \in 1..Len(encoded.calls[n].left) :
                   ConvertedAs(pcm.frames[n][1][i], encoded.calls[n].left[i])
  /\ encoded.fn = "multiEncodeWav"
       => LET fed == Flatten(MonoBuffers(pcm.frames))
          IN \A k \in 0..(Len(fed) - 1) :
               ConvertedAs(fed[k + 1], ReadInt16LE(encoded.bytes, 44 + k * 2))

\* a WAV encoded from a sample above 1 and a negative fraction
C25_EncodedBeyondRange ==
  /\ encoded.fn = "encodeWav" /\ encoded.state = "returned" /\ pcm.channelCount = 1
  /\ Len(pcm.frames) = 2
  /\ pcm.frames[1] = <<<<SampleScale + 1>>>> /\ pcm.frames[2] = <<<<0 - 1>>>>

\* C26: encodeMp3 rejects an empty frame list and a channel count other than 1 or
\* 2, and then has neither loaded nor called the external encoder; any other input
\* passes the input checks: the call goes on to load the encoder.
C26_Mp3RejectsInvalidInput ==
  encoded.fn = "encodeMp3"
    => IF pcm.frames = <<>> \/ pcm.channelCount \notin {1, 2}
         THEN encoded.state = "threw" /\ encoded.loads = 0 /\ encoded.calls = <<>>
         ELSE encoded.loads = 1

\* a call with frames and three channels has been rejected
C26_RejectedThreeChannels ==
  /\ encoded.fn = "encodeMp3" /\ encoded.state = "threw"
  /\ pcm.frames # <<>> /\ pcm.channelCount = 3

\* the chunks the encoder returned from its calls, in call order, empty ones left out
RECURSIVE NonEmptyOuts(_)
NonEmptyOuts(made) ==
  IF made = <<>> THEN <<>>
  ELSE (IF Head(made).out = <<>> THEN <<>> ELSE <<Head(made).out>>)
         \o NonEmptyOuts(Tail(made))

\* C27: with the encoder loaded and frames that each have a first channel,
\* encodeMp3 calls encodeBuffer once per frame in frame order (left alone for
\* mono, left and right for stereo), then flush once; the payload is made of
\* exactly the non-empty chunks those calls returned, in that order, flush last.
C27_Mp3FeedsFramesInOrder ==
  (/\ encoded.fn = "encodeMp3" /\ encoded.state \in {"returned", "threw"}
   /\ encoded.loads = 1
   /\ \A k \in 1..Len(pcm.frames) : pcm.frames[k] # <<>>)
    => LET n == Len(pcm.frames)
       IN /\ encoded.state = "returned"
          /\ Len(encoded.calls) = n + 1
          /\ \A k \in 1..n :
               /\ encoded.calls[k].op = "encodeBuffer"
               /\ encoded.calls[k].left
                    = [i \in 1..Len(pcm.frames[k][1]) |-> sampleToInt16(pcm.frames[k][1][i])]
               /\ encoded.calls[k].stereo = (pcm.channelCount = 2)
               /\ encoded.calls[k].stereo
                    => LET ch == IF Len(pcm.frames[k]) >= 2 THEN 2 ELSE 1
                       IN encoded.calls[k].right
                            = [i \in 1..Len(pcm.frames[k][ch]) |->
                                 sampleToInt16(pcm.frames[k][ch][i])]
          /\ encoded.calls[n + 1].op = "flush"
          /\ encoded.parts = NonEmptyOuts(encoded.calls)
          /\ encoded.bytes = Flatten(NonEmptyOuts(encoded.calls))

\* two stereo frames encoded, the first call returning nothing, the second call and
\* the flush returning bytes
C27_SecondChunkAndFlush ==
  /\ encoded.fn = "encodeMp3" /\ encoded.state = "returned"
  /\ pcm.channelCount = 2 /\ Len(pcm.frames) = 2
  /\ encoded.calls[1].out = <<>> /\ encoded.calls[2].out # <<>>
  /\ encoded.calls[3].out # <<>>

\* C28: a stopRecording() that follows a startRecording() that has returned, with
\* no other call between them, returns a mono 16-bit WAV of
\* 44 + 2n bytes (data size 2n, RIFF size 36 + 2n) that holds, in delivery order,
\* the n samples of the non-empty buffers delivered since startRecording(), and
\* nothing else.
C28_MultiWavHoldsWhatWasFed ==
  (/\ mrDone.op = "stopRecording" /\ mrDone.ok /\ mrDone.open /\ mrDone.plain
   /\ mrCalls = <<>>)
    => LET fed == Flatten(mrDone.fed)
           n == Len(fed)
       IN /\ Len(mrDone.blob) = 44 + 2 * n
          /\ ReadWavHeader(mrDone.blob) =
               [container |-> TRUE, riffSize |-> 36 + 2 * n, fmtSize |-> 16,
                audioFormat |-> 1, channels |-> 1, sampleRate |-> mr.sampleRate,
                byteRate |-> mr.sampleRate * 2, blockAlign |-> 2, bitsPerSample |-> 16,
                dataSize |-> 2 * n]
          /\ \A k \in 0..(n - 1) :
               ReadInt16LE(mrDone.blob, 44 + 2 * k) = sampleToInt16(fed[k + 1])

\* C29: once close() has returned with no startRecording() under way, every stream
\* the instance acquired has its tracks stopped, every context it created is closed
\* or closing, no node is connected to the graph and the sample buffer is empty.
C29_CloseReleasesEverything ==
  (mrDone.op = "close" /\ mrCalls = <<>>)
    => /\ \A k \in MrIds :
            /\ mrTracks[k] # "live"
            /\ mrContexts[k] # "running"
            /\ ~mrProcessors[k].connected
       /\ mr.wavPcmData = <<>>

\* C30: a capture graph is torn down in the order node disconnected, tracks
\* stopped, context closed: no stream has its tracks stopped while its processing
\* node is still connected, and no context is closing or closed while the tracks
\* of its stream are still live.
C30_TeardownInOrder ==
  \A s \in SessionIds :
    /\ tracks[s] = "ended" => ~nodes[s].out
    /\ contexts[s] \in {"closing", "closed"} => tracks[s] # "live"

\* the frames node c has delivered, in delivery order
DeliveredBy(c) == [i \in 1..nodes[c].delivered |-> [ctx |-> c, seq |-> i]]

\* a raw-tap session is in progress with the node it attached
TapAttached ==
  /\ status \in {"recording", "paused"}
  /\ processorNodeRef # 0
  /\ mediaRecorderRef = 0

\* C31: while a raw-tap session is recording or paused with its node attached, the
\* accumulator holds exactly the frames that node has delivered, each once and in
\* delivery order; and the descriptor a stop() creates for such a session
\* holds exactly that sequence of frames.
C31_AccumulatorIsAppendOnly ==
  [][/\ TapAttached' => pcmFramesRef' = DeliveredBy(processorNodeRef)'
     /\ (TapAttached /\ status' = "stopped" /\ pcmFramesRef # <<>>)
          => /\ onStopCalls' = onStopCalls + 1
             /\ recording'.data = DeliveredBy(processorNodeRef)
             /\ recording'.size = WavHeaderBytes + Len(pcmFramesRef) * SamplesPerFrame * 2 * channelCount]_vars

\* the payload of a descriptor was encoded from raw-tap frames
IsWavPayload(rec) == rec.data # <<>> /\ "ctx" \in DOMAIN rec.data[1]

\* C32: the format tag of a descriptor is the format elected when its session
\* started: a payload encoded from raw-tap frames is tagged wav, the only format that
\* elects the raw tap, and a payload of native chunks is tagged with a format the
\* native recorder supports.
C32_FormatFixedAtStart ==
  recording # NoRecording
    => IF IsWavPayload(recording)
         THEN recording.format = "wav"
         ELSE recording.format \in nativeFormats

\* The hook with one start() at most, under the assumption that the platform delivers
\* every queued stop event of a recorder and settles every close() it was asked for.
InitLive == InitHook(ClockSessions)

SpecLive ==
  /\ InitLive
  /\ [][Next]_vars
  /\ WF_vars(\E r \in SessionIds : RecorderStopEvent(r))
  /\ WF_vars(\E p \in ProcIds : CloseResolved(p))

\* a stop() invoked in status recording or paused is waiting on a platform promise
StopPending ==
  \E p \in Parked : procs[p].op = "stop" /\ procs[p].from \in {"recording", "paused"}

\* a stop() invoked in status recording or paused has just returned
StopReturned == done.op = "stop" /\ done.from \in {"recording", "paused"}

MicrophoneReleased == streamRef = 0 /\ \A s \in SessionIds : tracks[s] # "live"

\* C33: every stop() invoked in status recording or paused returns in the end, and
\* when it has returned status is stopped and the microphone is released.
C33_StopResolvesAndReleases ==
  /\ StopPending ~> StopReturned
  /\ [](StopReturned => (status = "stopped" /\ MicrophoneReleased))

\* C34: while status is paused no frame is added to the accumulator: a step that
\* begins and ends in status paused leaves the accumulator no longer than it was.
C34_NoFrameWhilePaused ==
  [][(status = "paused" /\ status' = "paused")
       => Len(pcmFramesRef') <= Len(pcmFramesRef)]_vars

\* a capture path is attached: a native recorder that is not inactive, or a raw-tap
\* processing node with its handler
CapturePathAttached ==
  \/ mediaRecorderRef # 0 /\ recorders[mediaRecorderRef].state \in {"recording", "paused"}
  \/ processorNodeRef # 0 /\ nodes[processorNodeRef].handler

\* C35: whenever status is recording or paused the instance holds a live stream and
\* an attached capture path.
C35_ActiveStatusHasStreamAndPath ==
  status \in {"recording", "paused"}
    => /\ streamRef # 0 /\ tracks[streamRef] = "live"
       /\ CapturePathAttached

\* C36: while a native recorder is held, the byte counter equals the sum of the
\* sizes of the chunks accumulated.
C36_BytesIsSumOfChunks ==
  mediaRecorderRef # 0 => bytes = SumSizes(chunksRef)

\* C37: the data a session holds came from the recorder or the tap of that session:
\* every chunk accumulated while a native recorder is held was emitted by that
\* recorder and carries the index of its place in the list, every frame accumulated
\* while a tap is attached was delivered by that tap, and a descriptor holds the
\* chunks of one recorder or the frames of one tap.
C37_SessionDataIsItsOwn ==
  /\ mediaRecorderRef # 0
       => \A i \in 1..Len(chunksRef) :
            chunksRef[i].rec = mediaRecorderRef /\ chunksRef[i].index = i - 1
  /\ TapAttached => \A i \in 1..Len(pcmFramesRef) : pcmFramesRef[i].ctx = processorNodeRef
  /\ \A i, j \in 1..Len(recording.data) :
       IF IsWavPayload(recording)
         THEN recording.data[i].ctx = recording.data[j].ctx
         ELSE recording.data[i].rec = recording.data[j].rec

\* C38: a session is finalized at most once: no more descriptors have been created
\* than start() calls have acquired a stream.
SessionsStarted == Cardinality({s \in SessionIds : tracks[s] # "none"})

C38_FinalizedAtMostOnce == onStopCalls <= SessionsStarted

\* C39: reset() is final for the session it tears down.  When reset() has just
\* completed, leaving status idle, the byte counter 0 and no current recording, the
\* next step, unless it is a new invocation of start(), leaves status idle, the
\* byte counter 0, the chunk list as it is and the current recording unset, and
\* invokes neither onChunk nor onStop.
C39_ResetIsFinal ==
  [][(/\ done.op = "reset"
      /\ status = "idle" /\ bytes = 0 /\ recording = NoRecording
      /\ started' = started)
       => /\ status' = "idle"
          /\ bytes' = 0
          /\ recording' = NoRecording
          /\ onStopCalls' = onStopCalls
          /\ chunksRef' = chunksRef]_vars

\* C40: stopRecording() returns a blob only when a recording is in progress, that
\* is when startRecording() has been called since the last stopRecording() or
\* close() that returned; and while no recording is in progress no sample is
\* accumulated.
C40_StopOnlyWhileRecording ==
  /\ (mrDone.op = "stopRecording" /\ mrDone.ok) => mrDone.open
  /\ ~mrFed.open => mr.wavPcmData = <<>>

====
